---- MODULE Spec2Model ----
(***************************************************************************)
(* State-machine model of src/lib/server/index.ts: one                     *)
(* WebSocketEndpointController (registry `sockets`, `pendingKeys`,          *)
(* `rateLimitMap`, per-socket watchdog timers, gracefulShutdown, destroy)  *)
(* together with its entry in `allowed_routes`; its broadcast() and send()  *)
(* calls; and the route table `allowed_routes` of WebSockets under          *)
(* continuous / use / raw registrations, destroy() and clear(); and         *)
(* WebSockets.upgrade dispatching requests to the controllers of the table. *)
(*                                                                         *)
(* Time is the integer `now` (Date.now()), advanced by Tick.  Timers fire  *)
(* no earlier than their deadline.  Node runs every callback to completion *)
(* before the next one, so each action is one callback: the synchronous    *)
(* prefix of add() up to `await this.authHandler(req)`, the continuation    *)
(* after the await, a timer callback, a 'close' event with its listeners.  *)
(* The ws library is modelled at its boundary: readyState                  *)
(* OPEN -> CLOSING -> CLOSED, close() and terminate() move an OPEN socket   *)
(* to CLOSING, the 'close' event is emitted on reaching CLOSED.            *)
(* Tokens come from randomBytes(32): two calls never return the same       *)
(* token, so generatePendingConnectionKey draws a token not issued before. *)
(***************************************************************************)
EXTENDS Integers, Sequences, FiniteSets, TLC

\* ------------------------------------------------------------------ bounds
MaxConns == 2
MaxKeys == 1
MaxTime == 3
MaxWatched == 1

WS == 1..MaxConns
Keys == 1..MaxKeys
NoKey == 0
Clients == {"c1"}

\* ------------------------------------------------- enum WebSocketError etc.
TOO_MANY_CONNECTIONS == 1013
INVALID_KEY == 1008
MISSING_PARAM == 1008
AUTH_FAILED == 1008
TIMEOUT == 1001
RATE_LIMITED == 1013
INTERNAL_ERROR == 1011
GOING_AWAY == 1001

\* The arguments of each ws.close(code, reason) call of the controller
NoFrame == [code |-> 0, reason |-> ""]
CloseRateLimited == [code |-> RATE_LIMITED, reason |-> "Rate limit exceeded"]
CloseTooMany == [code |-> TOO_MANY_CONNECTIONS, reason |-> "Too many connections"]
CloseInvalidKey == [code |-> INVALID_KEY, reason |-> "Invalid or expired connection key"]
CloseMissingParam == [code |-> MISSING_PARAM, reason |-> "Missing required parameter: <param>"]
CloseAuthFailedAsInvalidKey == [code |-> AUTH_FAILED, reason |-> "Invalid or expired connection key"]
CloseAuthFailed == [code |-> AUTH_FAILED, reason |-> "Authentication failed"]
CloseTimeout == [code |-> TIMEOUT, reason |-> "Connection timeout due to inactivity"]
CloseInternalAsAuthFailed == CloseAuthFailed
CloseInternal == [code |-> INTERNAL_ERROR, reason |-> "Internal server error"]
CloseShutdown == [code |-> GOING_AWAY, reason |-> "Server shutting down"]

\* The seven rejection/closure causes, and the frame the code sends for each
\* cause (plus the close of gracefulShutdown).
Causes == {"tooMany", "invalidKey", "missingParam", "authFailed", "timeout", "rateLimited", "internalError"}
FrameOf(c) ==
    CASE c = "tooMany" -> CloseTooMany
      [] c = "invalidKey" -> CloseInvalidKey
      [] c = "missingParam" -> CloseMissingParam
      [] c = "authFailed" -> CloseAuthFailed
      [] c = "timeout" -> CloseTimeout
      [] c = "rateLimited" -> CloseRateLimited
      [] c = "internalError" -> CloseInternal
      [] c = "shutdown" -> CloseShutdown

\* ------------------------------------------------------------------- state
VARIABLES
    config,        \* WebSocketEndpointConfig of the controller (fixed after construction)
    now,           \* Date.now()
    routed,        \* allowed_routes.has(path) with this controller as the entry
    sockets,       \* keys of the Map `sockets` (the registry)
    pendingKeys,   \* values of the Map `pendingKeys`: records [key, expiresAt]
    rateLimitMap,  \* clientId -> [count, resetTime]; count = 0 stands for "no entry"
    ws,            \* per connection: readyState, close frame sent, terminated
    pc,            \* per connection attempt: "new" | "auth" | "done"
    req,           \* per attempt: the key and required parameters the request presented, whether the registry was full when add() ran,
                   \* whether 'rateLimit' was emitted for it, what authHandler answered
    outcome,       \* per attempt: how add() ended
    closeListener, \* per connection: add()'s once('close') listener is attached
    timers,        \* per connection: deadlines of its armed watchdog timers, oldest first
    timeoutTimer,  \* per connection: ws.timeoutTimer: "undefined" | "armed" | "dead"
    lastActivity,  \* per connection: ws.lastActivity (-1 = undefined)
    onceConnect,   \* use(): the controller.once('connect') listener is still registered
    destroyOnClose,\* use(): sockets carrying the once('close', () => controller.destroy()) listener
    gs,            \* the gracefulShutdown() call: its closure variables, promise and force timer
    hist,          \* history: per token its expiry (-1 = not issued), successful validations and consumer;
                   \* the first registered connection; the connections use()'s connectionHandler ran for;
                   \* the connections 'connect' was emitted for
    errorListener, \* an 'error' listener is registered on the controller
    bc,            \* the broadcast() call: its closure variables and outstanding socket.send callbacks
    ret,           \* return value and callback argument of the last send() / registration call
    allowed_routes,\* the Map allowed_routes over Paths: path -> controller id (0 = no entry)
    controllers,   \* the controllers created by continuous / use / raw, by id
    process        \* the Node process: "running" | "exited"

routeVars == <<allowed_routes, controllers, process>>
callVars == <<bc, ret>>

vars == <<config, now, routed, sockets, pendingKeys, rateLimitMap, ws, pc, req, outcome,
          closeListener, timers, timeoutTimer, lastActivity, onceConnect, destroyOnClose, gs, hist,
          errorListener, bc, ret, allowed_routes, controllers, process>>

\* ---------------------------------------------------------- configurations
NoRateLimit == [max |-> 0, window |-> 0]
NoEntry == [count |-> 0, resetTime |-> 0]

BaseConfig ==
    [kind |-> "continuous", limit |-> 0, useConnectionKeys |-> TRUE, pendingKeyExpiration |-> 1,
     requiredParams |-> FALSE, timeout |-> 0, rateLimit |-> NoRateLimit, authHandler |-> "async"]

\* continuous(path, {limit: 1, useConnectionKeys: false, authHandler: async ...})
CfgLimit == [BaseConfig EXCEPT !.limit = 1, !.useConnectionKeys = FALSE]
\* continuous(path, {authHandler: async ...}): key-gated, no limit
CfgKeys == BaseConfig
\* use(path, handler, {authHandler: async ...}): key-gated, limit 1, destroyed on close
CfgUse == [BaseConfig EXCEPT !.kind = "use", !.limit = 1]
\* use(path, handler, {useConnectionKeys: false, authHandler: async ...})
CfgUseOpen == [CfgUse EXCEPT !.useConnectionKeys = FALSE]
\* continuous(path, {limit: 2, useConnectionKeys: false, requiredParams, rateLimit})
CfgOpen ==
    [BaseConfig EXCEPT !.limit = 2, !.useConnectionKeys = FALSE, !.requiredParams = TRUE,
                       !.rateLimit = [max |-> 2, window |-> 2], !.authHandler = "default"]
\* continuous(path, {useConnectionKeys: false, authHandler: async ...})
CfgPlain == [BaseConfig EXCEPT !.useConnectionKeys = FALSE]
\* continuous(path, {useConnectionKeys: false, timeout: 2})
CfgTimeout == [BaseConfig EXCEPT !.useConnectionKeys = FALSE, !.timeout = 2]

\* continuous(path, {useConnectionKeys: false, rateLimit: {max: 2, window: 1}})
CfgRate ==
    [BaseConfig EXCEPT !.useConnectionKeys = FALSE, !.rateLimit = [max |-> 2, window |-> 1],
                       !.authHandler = "default"]

\* continuous(path, {limit: 1, requiredParams, rateLimit: {max: 1, window: 1}, authHandler: async ...}):
\* every check of add() is configured
CfgAll ==
    [BaseConfig EXCEPT !.limit = 1, !.requiredParams = TRUE, !.rateLimit = [max |-> 1, window |-> 1]]

Configs == {CfgLimit, CfgKeys, CfgOpen}

\* ------------------------------------------------------------ ws library
NewWs == [readyState |-> "NONE", sent |-> NoFrame, cause |-> "none", terminated |-> FALSE, recv |-> FALSE]

\* ws.close(code, reason): only an OPEN socket sends the frame and starts closing
wsClose(s, cause) ==
    IF s.readyState = "OPEN"
    THEN [s EXCEPT !.readyState = "CLOSING", !.sent = FrameOf(cause), !.cause = cause]
    ELSE s

\* ws.terminate(): destroys the transport unless already CLOSED
wsTerminate(s) ==
    IF s.readyState = "CLOSED" THEN s
    ELSE [s EXCEPT !.readyState = "CLOSING", !.terminated = TRUE, !.recv = FALSE]

\* ------------------------------------------------------- pending keys
\* generatePendingConnectionKey(): store a fresh token with its expiry
generatePendingConnectionKey(k) ==
    pendingKeys \cup {[key |-> k, expiresAt |-> now + config.pendingKeyExpiration]}

Matching(pks, providedKey) == {pk \in pks : pk.key = providedKey /\ now <= pk.expiresAt}

validateNoExpiry(pks, providedKey) ==
    IF providedKey = NoKey THEN [ok |-> FALSE, keys |-> pks]
    ELSE IF {pk \in pks : pk.key = providedKey} # {}
         THEN [ok |-> TRUE, keys |-> pks \ {CHOOSE pk \in pks : pk.key = providedKey}]
         ELSE [ok |-> FALSE, keys |-> pks]

validateNoDelete(pks, providedKey) ==
    IF providedKey = NoKey THEN [ok |-> FALSE, keys |-> pks]
    ELSE [ok |-> Matching(pks, providedKey) # {}, keys |-> pks]

\* validateConnectionKey(providedKey): consume the first unexpired match
validateConnectionKey(pks, providedKey) ==
    IF providedKey = NoKey THEN [ok |-> FALSE, keys |-> pks]
    ELSE IF Matching(pks, providedKey) # {}
         THEN [ok |-> TRUE, keys |-> pks \ {CHOOSE pk \in Matching(pks, providedKey) : TRUE}]
         ELSE [ok |-> FALSE, keys |-> pks]

cleanupAtExpiry(pks) == {pk \in pks : ~(now >= pk.expiresAt)}

\* cleanupExpiredKeys(): the 30 s sweep
cleanupExpiredKeys(pks) == {pk \in pks : ~(now > pk.expiresAt)}

\* ------------------------------------------------------- rate limiter
\* checkRateLimit(req) for the client identity c
rateLimitNoReset(map, c) ==
    IF config.rateLimit.max = 0 THEN [ok |-> TRUE, map |-> map, event |-> FALSE]
    ELSE IF map[c].count = 0
         THEN [ok |-> TRUE, event |-> FALSE,
               map |-> [map EXCEPT ![c] = [count |-> 1, resetTime |-> now + config.rateLimit.window]]]
         ELSE IF map[c].count >= config.rateLimit.max
              THEN [ok |-> FALSE, map |-> map, event |-> TRUE]
              ELSE [ok |-> TRUE, map |-> [map EXCEPT ![c].count = @ + 1], event |-> FALSE]

\* checkRateLimit(req) for the client identity c; `event` = emit('rateLimit', req)
checkRateLimit(map, c) ==
    IF config.rateLimit.max = 0 THEN [ok |-> TRUE, map |-> map, event |-> FALSE]
    ELSE IF map[c].count = 0 \/ now > map[c].resetTime
         THEN [ok |-> TRUE, event |-> FALSE,
               map |-> [map EXCEPT ![c] = [count |-> 1, resetTime |-> now + config.rateLimit.window]]]
         ELSE IF map[c].count >= config.rateLimit.max
              THEN [ok |-> FALSE, map |-> map, event |-> TRUE]
              ELSE [ok |-> TRUE, map |-> [map EXCEPT ![c].count = @ + 1], event |-> FALSE]

\* ----------------------------------------------------- watchdog timers
\* A socket's timer state: q = deadlines of its armed timers (oldest first),
\* h = ws.timeoutTimer, la = ws.lastActivity.  While h = "armed" the handle
\* is the newest timer, the last element of q.
TimerState(w) == [q |-> timers[w], h |-> timeoutTimer[w], la |-> lastActivity[w]]

clearTimeoutNoop(t) == t

\* clearTimeout(ws.timeoutTimer): cancels the referenced timer if it is still armed
clearTimeout(t) ==
    IF t.h = "armed" THEN [t EXCEPT !.q = SubSeq(t.q, 1, Len(t.q) - 1), !.h = "dead"] ELSE t

setupNoClear(t) ==
    IF config.timeout = 0 THEN t
    ELSE [q |-> Append(t.q, now + config.timeout), h |-> "armed", la |-> now]

\* setupSocketTimeout(ws)
setupSocketTimeout(t) ==
    IF config.timeout = 0 THEN t
    ELSE LET c == IF t.h # "undefined" THEN clearTimeout(t) ELSE t
         IN  [q |-> Append(c.q, now + config.timeout), h |-> "armed", la |-> now]

\* resetSocketTimeout(ws)
resetSocketTimeout(t) == setupSocketTimeout([t EXCEPT !.la = now])

\* ------------------------------------------------------------ add()
AtCapacityOffByOne == config.limit # 0 /\ Cardinality(sockets) > config.limit

\* the connection limit check: this.config?.limit && this.sockets.size >= this.config.limit
AtCapacity == config.limit # 0 /\ Cardinality(sockets) >= config.limit

AddChecksKeyFirst(k, p, c) ==
    LET rl == checkRateLimit(rateLimitMap, c)
        kv == validateConnectionKey(pendingKeys, k)
        ks == IF config.useConnectionKeys THEN kv.keys ELSE pendingKeys
    IN  IF ~rl.ok
        THEN [result |-> "rateLimited", map |-> rl.map, keys |-> pendingKeys, validated |-> FALSE, event |-> rl.event]
        ELSE IF config.useConnectionKeys /\ ~kv.ok
        THEN [result |-> "invalidKey", map |-> rl.map, keys |-> pendingKeys, validated |-> FALSE, event |-> rl.event]
        ELSE IF AtCapacity
        THEN [result |-> "tooMany", map |-> rl.map, keys |-> ks, validated |-> config.useConnectionKeys, event |-> rl.event]
        ELSE IF config.requiredParams /\ ~p
        THEN [result |-> "missingParam", map |-> rl.map, keys |-> ks, validated |-> config.useConnectionKeys, event |-> rl.event]
        ELSE [result |-> "pass", map |-> rl.map, keys |-> ks, validated |-> config.useConnectionKeys, event |-> rl.event]

\* The synchronous checks of add() in the order of the code; the first failure
\* decides the close frame.  The rate-limit entry is written before the other
\* checks run, the key is consumed before requiredParams and authHandler.
AddChecks(k, p, c) ==
    LET rl == checkRateLimit(rateLimitMap, c)
        kv == validateConnectionKey(pendingKeys, k)
    IN  IF ~rl.ok
        THEN [result |-> "rateLimited", map |-> rl.map, keys |-> pendingKeys, validated |-> FALSE, event |-> rl.event]
        ELSE IF AtCapacity
        THEN [result |-> "tooMany", map |-> rl.map, keys |-> pendingKeys, validated |-> FALSE, event |-> rl.event]
        ELSE IF config.useConnectionKeys /\ ~kv.ok
        THEN [result |-> "invalidKey", map |-> rl.map, keys |-> pendingKeys, validated |-> FALSE, event |-> rl.event]
        ELSE IF config.requiredParams /\ ~p
        THEN [result |-> "missingParam", map |-> rl.map,
              keys |-> IF config.useConnectionKeys THEN kv.keys ELSE pendingKeys,
              validated |-> config.useConnectionKeys, event |-> rl.event]
        ELSE [result |-> "pass", map |-> rl.map,
              keys |-> IF config.useConnectionKeys THEN kv.keys ELSE pendingKeys,
              validated |-> config.useConnectionKeys, event |-> rl.event]

\* What the listeners run by emit('connect', ws) do: return, or throw
ConnectResult == {"ok", "throws"}

onceKeepsListener(h, w) == [h EXCEPT !.handler = Append(@, w)]

\* controller.once('connect', ...) of use() (lines 573-576): the listener is
\* removed before it runs, so connectionHandler runs for this emit only
onceConnectListener(h, w) ==
    IF onceConnect THEN [h EXCEPT !.handler = Append(@, w)] ELSE h

\* add() after authHandler returned true (lines 238-269): register the socket,
\* arm the watchdog, attach the close listener, emit 'connect'.  The listener
\* registered by use() runs inside emit('connect').  `s` is the socket as it is
\* when the continuation runs, `e` what the connect listeners do, `h` the
\* history so far.  A throwing listener lands in the catch block (270-273):
\* emit('error') throws in its turn when no 'error' listener is registered, and
\* then ws.close(1011) is not reached and the promise of add() is rejected.
Register(w, s, e, h) ==
    LET t == setupSocketTimeout(TimerState(w))
        s1 == IF e = "throws" /\ errorListener THEN wsClose(s, "internalError") ELSE s
        h1 == onceConnectListener(h, w)
    IN  /\ sockets' = sockets \cup {w}
        /\ ws' = [ws EXCEPT ![w] = s1]
        /\ timers' = [timers EXCEPT ![w] = t.q]
        /\ timeoutTimer' = [timeoutTimer EXCEPT ![w] = t.h]
        /\ lastActivity' = [lastActivity EXCEPT ![w] = t.la]
        /\ closeListener' = [closeListener EXCEPT ![w] = (s.readyState # "CLOSED")]
        /\ onceConnect' = FALSE
        /\ destroyOnClose' = IF onceConnect /\ s.readyState # "CLOSED"
                             THEN destroyOnClose \cup {w} ELSE destroyOnClose
        /\ pc' = [pc EXCEPT ![w] = "done"]
        /\ outcome' = [outcome EXCEPT ![w] = IF e = "ok" THEN "admitted"
                                             ELSE IF errorListener THEN "internalError"
                                             ELSE "addRejected"]
        /\ hist' = [h1 EXCEPT !.firstAdmitted = IF @ = 0 THEN w ELSE @, !.connected = @ \cup {w}]

\* The request inputs a configuration distinguishes
KeyInputs ==
    IF config.useConnectionKeys THEN {k \in Keys : hist.expiry[k] # -1} \cup {NoKey} ELSE {NoKey}
ParamInputs == IF config.requiredParams THEN BOOLEAN ELSE {TRUE}

\* WebSockets.upgrade with the default beforeUpgrade gate: unknown path ->
\* socket.end(); otherwise handleUpgrade creates the socket and calls add(),
\* which runs up to `await this.authHandler(req)`.  With the default
\* authHandler the continuation is the next microtask and runs before any
\* other callback, so it is part of the same step.
upgrade(w, k, p, c) ==
    /\ pc[w] = "new"
    /\ \A v \in WS : v < w => pc[v] # "new"
    /\ UNCHANGED <<routeVars, callVars, errorListener, config, now, routed, gs>>
    /\ IF ~routed
       THEN /\ pc' = [pc EXCEPT ![w] = "done"]
            /\ outcome' = [outcome EXCEPT ![w] = "noRoute"]
            /\ req' = [req EXCEPT ![w] = [key |-> k, params |-> p, full |-> (config.limit # 0 /\ Cardinality(sockets) >= config.limit), rateLimitEvent |-> FALSE, auth |-> "none"]]
            /\ UNCHANGED <<sockets, pendingKeys, rateLimitMap, ws, closeListener, timers,
                           timeoutTimer, lastActivity, onceConnect, destroyOnClose, hist>>
       ELSE LET r == AddChecks(k, p, c)
                open == [NewWs EXCEPT !.readyState = "OPEN", !.recv = TRUE]
                h == IF r.validated
                     THEN [hist EXCEPT !.validated[k] = @ + 1, !.consumer[k] = w] ELSE hist
            IN  /\ rateLimitMap' = r.map
                /\ pendingKeys' = r.keys
                /\ req' = [req EXCEPT ![w] = [key |-> k, params |-> p, full |-> (config.limit # 0 /\ Cardinality(sockets) >= config.limit), rateLimitEvent |-> r.event,
                                               auth |-> IF r.result = "pass" /\ config.authHandler = "default"
                                                        THEN "true" ELSE "none"]]
                /\ IF r.result = "pass"
                   THEN IF config.authHandler = "default"
                        THEN \E e \in ConnectResult : Register(w, open, e, h)
                        ELSE /\ ws' = [ws EXCEPT ![w] = open]
                             /\ pc' = [pc EXCEPT ![w] = "auth"]
                             /\ hist' = h
                             /\ UNCHANGED <<sockets, outcome, closeListener, timers, timeoutTimer,
                                            lastActivity, onceConnect, destroyOnClose>>
                   ELSE /\ ws' = [ws EXCEPT ![w] = wsClose(open, r.result)]
                        /\ pc' = [pc EXCEPT ![w] = "done"]
                        /\ outcome' = [outcome EXCEPT ![w] = r.result]
                        /\ hist' = h
                        /\ UNCHANGED <<sockets, closeListener, timers, timeoutTimer,
                                       lastActivity, onceConnect, destroyOnClose>>

\* add() resumes after `await this.authHandler(req)` with the handler's result:
\* true, false, or a thrown error / rejected promise (caught at line 270)
AuthResult == {"true", "false", "throw"}

addResume(w, r) ==
    /\ pc[w] = "auth"
    /\ UNCHANGED <<routeVars, callVars, errorListener, config, now, routed, pendingKeys,
                   rateLimitMap, gs>>
    /\ req' = [req EXCEPT ![w].auth = r]
    /\ IF r = "true"
       THEN \E e \in ConnectResult : Register(w, ws[w], e, hist)
       ELSE LET res == IF r = "false" THEN "authFailed"
                       ELSE IF errorListener THEN "internalError" ELSE "addRejected"
            IN  /\ ws' = [ws EXCEPT ![w] = IF res = "addRejected" THEN @ ELSE wsClose(@, res)]
                /\ pc' = [pc EXCEPT ![w] = "done"]
                /\ outcome' = [outcome EXCEPT ![w] = res]
                /\ UNCHANGED <<sockets, closeListener, timers, timeoutTimer, lastActivity,
                               onceConnect, destroyOnClose, hist>>

\* controller.new / generatePendingConnectionKey() called by the application
IssueKey(k) ==
    /\ k \in Keys
    /\ hist.expiry[k] = -1
    /\ \A j \in Keys : j < k => hist.expiry[j] # -1
    /\ config.useConnectionKeys
    /\ pendingKeys' = generatePendingConnectionKey(k)
    /\ hist' = [hist EXCEPT !.expiry[k] = now + config.pendingKeyExpiration]
    /\ UNCHANGED <<routeVars, callVars, errorListener, config, now, routed, sockets, rateLimitMap, ws, pc, req, outcome, closeListener,
                   timers, timeoutTimer, lastActivity, onceConnect, destroyOnClose, gs>>

\* the setInterval(() => this.cleanupExpiredKeys(), 30000) callback
Sweep ==
    /\ pendingKeys' = cleanupExpiredKeys(pendingKeys)
    /\ pendingKeys' # pendingKeys
    /\ UNCHANGED <<routeVars, callVars, errorListener, config, now, routed, sockets, rateLimitMap, ws, pc, req, outcome, closeListener,
                   timers, timeoutTimer, lastActivity, onceConnect, destroyOnClose, gs, hist>>

Tick ==
    /\ now < MaxTime
    /\ now' = now + 1
    /\ UNCHANGED <<routeVars, callVars, errorListener, config, routed, sockets, pendingKeys, rateLimitMap, ws, pc, req, outcome,
                   closeListener, timers, timeoutTimer, lastActivity, onceConnect,
                   destroyOnClose, gs, hist>>

\* --------------------------------------------------- destroy / terminate
\* The loop of destroy() (lines 467-474) and of terminate() (446-451) over the
\* registry `socks`: cancel the socket's timer, terminate it (destroy(): only
\* when OPEN).  Returns the sockets and timer state after the loop.
AfterLoop(socks, wsf, tq, th, onlyOpen) ==
    [ws |-> [w \in WS |->
                IF w \in socks /\ (~onlyOpen \/ wsf[w].readyState = "OPEN")
                THEN wsTerminate(wsf[w]) ELSE wsf[w]],
     timers |-> [w \in WS |->
                IF w \in socks /\ th[w] # "undefined"
                THEN clearTimeout([q |-> tq[w], h |-> th[w], la |-> 0]).q ELSE tq[w]],
     timeoutTimer |-> [w \in WS |->
                IF w \in socks /\ th[w] # "undefined"
                THEN clearTimeout([q |-> tq[w], h |-> th[w], la |-> 0]).h ELSE th[w]]]

EmptyRateLimitMap == [c \in Clients |-> NoEntry]

\* destroy() applied to the registry `socks` with sockets `wsf` and timers tq/th
destroy(socks, wsf, tq, th) ==
    LET a == AfterLoop(socks, wsf, tq, th, TRUE)
    IN  /\ ws' = a.ws
        /\ timers' = a.timers
        /\ timeoutTimer' = a.timeoutTimer
        /\ sockets' = {}
        /\ pendingKeys' = {}
        /\ rateLimitMap' = EmptyRateLimitMap
        /\ routed' = FALSE
        /\ onceConnect' = FALSE
        /\ errorListener' = FALSE

closeHandlerNoResolve(g) == [g EXCEPT !.closedCount = g.closedCount + 1]

\* gracefulShutdown's closeHandler, run by the once('close') listener of w
closeHandler(g) ==
    LET n == g.closedCount + 1
    IN  [g EXCEPT !.closedCount = n,
                  !.state = IF n = Cardinality(g.sockets) THEN "resolved" ELSE @]

\* ------------------------------------------------------ ws events
\* The peer sends a close frame or drops the transport: the socket starts closing
PeerClose(w) ==
    /\ ws[w].readyState = "OPEN"
    /\ ws' = [ws EXCEPT ![w].readyState = "CLOSING", ![w].recv = FALSE]
    /\ UNCHANGED <<routeVars, callVars, errorListener, config, now, routed, sockets, pendingKeys, rateLimitMap, pc, req, outcome,
                   closeListener, timers, timeoutTimer, lastActivity, onceConnect,
                   destroyOnClose, gs, hist>>

\* The socket reaches CLOSED and emits 'close'.  Listeners run in registration
\* order: add()'s listener (lines 248-255), the destroy listener of use()
\* (line 574), gracefulShutdown's closeHandler (line 422).
emitClose(w) ==
    /\ ws[w].readyState = "CLOSING"
    /\ LET closed == [ws EXCEPT ![w].readyState = "CLOSED", ![w].recv = FALSE]
           socks1 == IF closeListener[w] THEN sockets \ {w} ELSE sockets
           t1     == IF closeListener[w] /\ timeoutTimer[w] # "undefined"
                     THEN [clearTimeout(TimerState(w)) EXCEPT !.h = "undefined"]
                     ELSE TimerState(w)
           tq1    == [timers EXCEPT ![w] = t1.q]
           th1    == [timeoutTimer EXCEPT ![w] = t1.h]
       IN  /\ closeListener' = [closeListener EXCEPT ![w] = FALSE]
           /\ destroyOnClose' = destroyOnClose \ {w}
           /\ gs' = IF w \in gs.listeners
                    THEN [closeHandler(gs) EXCEPT !.listeners = @ \ {w}] ELSE gs
           /\ IF w \in destroyOnClose
              THEN destroy(socks1, closed, tq1, th1)
              ELSE /\ ws' = closed
                   /\ sockets' = socks1
                   /\ timers' = tq1
                   /\ timeoutTimer' = th1
                   /\ UNCHANGED <<routed, pendingKeys, rateLimitMap, onceConnect, errorListener>>
    /\ UNCHANGED <<routeVars, callVars, config, now, pc, req, outcome, lastActivity, hist>>

\* A 'message', 'ping' or 'pong' event on an admitted socket (lines 261-267)
Activity(w) ==
    /\ config.timeout > 0
    /\ lastActivity[w] # -1
    /\ ws[w].recv
    /\ LET t == resetSocketTimeout(TimerState(w))
       IN  /\ timers' = [timers EXCEPT ![w] = t.q]
           /\ timeoutTimer' = [timeoutTimer EXCEPT ![w] = t.h]
           /\ lastActivity' = [lastActivity EXCEPT ![w] = t.la]
    /\ UNCHANGED <<routeVars, callVars, errorListener, config, now, routed, sockets, pendingKeys, rateLimitMap, ws, pc, req, outcome,
                   closeListener, onceConnect, destroyOnClose, gs, hist>>

\* resetTimeout(ref) called by the application
resetTimeout(w) ==
    /\ w \in sockets
    /\ config.timeout > 0
    /\ LET t == resetSocketTimeout(TimerState(w))
       IN  /\ timers' = [timers EXCEPT ![w] = t.q]
           /\ timeoutTimer' = [timeoutTimer EXCEPT ![w] = t.h]
           /\ lastActivity' = [lastActivity EXCEPT ![w] = t.la]
    /\ UNCHANGED <<routeVars, callVars, errorListener, config, now, routed, sockets, pendingKeys, rateLimitMap, ws, pc, req, outcome,
                   closeListener, onceConnect, destroyOnClose, gs, hist>>

\* The watchdog callback of setupSocketTimeout (lines 283-287).  Timers of one
\* duration fire in creation order.
TimerFire(w) ==
    /\ timers[w] # <<>>
    /\ Head(timers[w]) <= now
    /\ timers' = [timers EXCEPT ![w] = Tail(@)]
    /\ timeoutTimer' = [timeoutTimer EXCEPT
                          ![w] = IF Len(timers[w]) = 1 /\ @ = "armed" THEN "dead" ELSE @]
    /\ ws' = [ws EXCEPT ![w] = wsClose(@, "timeout")]
    /\ UNCHANGED <<routeVars, callVars, errorListener, config, now, routed, sockets, pendingKeys, rateLimitMap, pc, req, outcome,
                   closeListener, lastActivity, onceConnect, destroyOnClose, gs, hist>>

\* terminate(ref) called by the application
terminateRef(w) ==
    /\ w \in sockets
    /\ LET a == AfterLoop({w}, ws, timers, timeoutTimer, FALSE)
       IN  /\ ws' = a.ws
           /\ timers' = a.timers
           /\ timeoutTimer' = a.timeoutTimer
    /\ UNCHANGED <<routeVars, callVars, errorListener, config, now, routed, sockets, pendingKeys, rateLimitMap, pc, req, outcome,
                   closeListener, lastActivity, onceConnect, destroyOnClose, gs, hist>>

\* terminate() called by the application
terminateAll ==
    /\ sockets # {}
    /\ LET a == AfterLoop(sockets, ws, timers, timeoutTimer, FALSE)
       IN  /\ ws' = a.ws
           /\ timers' = a.timers
           /\ timeoutTimer' = a.timeoutTimer
    /\ sockets' = {}
    /\ pendingKeys' = {}
    /\ rateLimitMap' = EmptyRateLimitMap
    /\ UNCHANGED <<routeVars, callVars, errorListener, config, now, routed, pc, req, outcome, closeListener, lastActivity,
                   onceConnect, destroyOnClose, gs, hist>>

\* destroy() called by the application
Destroy ==
    /\ routed
    /\ destroy(sockets, ws, timers, timeoutTimer)
    /\ UNCHANGED <<routeVars, callVars, config, now, pc, req, outcome, closeListener, lastActivity, destroyOnClose,
                   gs, hist>>

\* ------------------------------------------------- gracefulShutdown(T)
ShutdownTimeouts == {1, 2}
GsIdle == [state |-> "idle", sockets |-> {}, closedCount |-> 0, listeners |-> {},
           forceArmed |-> FALSE, forceAt |-> 0, startedAt |-> 0]

\* gracefulShutdown(timeout): the promise executor (lines 394-434)
gracefulShutdown(T) ==
    /\ gs.state = "idle"
    /\ now + T <= MaxTime
    /\ LET snap == sockets
           notOpen == {w \in snap : ws[w].readyState # "OPEN"}
           n == Cardinality(notOpen)
       IN  IF snap = {}
           THEN /\ gs' = [GsIdle EXCEPT !.state = "resolved", !.startedAt = now]
                /\ ws' = ws
           ELSE /\ gs' = [state |-> IF n = Cardinality(snap) THEN "resolved" ELSE "pending",
                          sockets |-> snap,
                          closedCount |-> n,
                          listeners |-> {w \in snap : ws[w].readyState # "CLOSED"},
                          forceArmed |-> (n # Cardinality(snap)),
                          forceAt |-> now + T,
                          startedAt |-> now]
                /\ ws' = [w \in WS |-> IF w \in snap THEN wsClose(ws[w], "shutdown") ELSE ws[w]]
    /\ UNCHANGED <<routeVars, callVars, errorListener, config, now, routed, sockets, pendingKeys, rateLimitMap, pc, req, outcome,
                   closeListener, timers, timeoutTimer, lastActivity, onceConnect,
                   destroyOnClose, hist>>

\* The forceTimeout callback (lines 411-418): terminates the OPEN sockets of the
\* registry as it is now, then resolves.
forceTimeout ==
    /\ gs.forceArmed
    /\ gs.forceAt <= now
    /\ ws' = [w \in WS |-> IF w \in sockets /\ ws[w].readyState = "OPEN"
                           THEN wsTerminate(ws[w]) ELSE ws[w]]
    /\ gs' = [gs EXCEPT !.forceArmed = FALSE, !.state = "resolved"]
    /\ UNCHANGED <<routeVars, callVars, errorListener, config, now, routed, sockets, pendingKeys, rateLimitMap, pc, req, outcome,
                   closeListener, timers, timeoutTimer, lastActivity, onceConnect,
                   destroyOnClose, hist>>

\* ------------------------------------------------------- broadcast / send
BcIdle == [state |-> "idle", selected |-> {}, attempted |-> {}, outstanding |-> {},
           errors |-> {}, completed |-> 0, total |-> 0, cbCalls |-> 0, cbErrors |-> {}]
NoReturn == [op |-> "none"]

\* The filter option of broadcast: the set of connections it accepts
Filters == SUBSET WS

SkippedNone(sel) == 0

\* The else branch of broadcast's loop (lines 331-336): a selected socket that
\* is not OPEN is counted as completed at once
SkippedCount(sel) == Cardinality({w \in sel : ws[w].readyState # "OPEN"})

\* broadcast(data, {filter}, cb) (lines 302-338).  socket.send is called on the
\* OPEN sockets of the selection; its callback runs later (BroadcastSendDone).
\* cb runs inside the call when nothing is selected, and at the end of the loop
\* when nothing selected is OPEN.
broadcast(F) ==
    /\ bc.state = "idle"
    /\ LET sel == sockets \cap F
           open == {w \in sel : ws[w].readyState = "OPEN"}
           total == Cardinality(sel)
           completed == SkippedCount(sel)
           called == total = 0 \/ (open = {} /\ completed = total)
       IN  bc' = [state |-> IF open = {} THEN "done" ELSE "pending",
                  selected |-> sel, attempted |-> open, outstanding |-> open,
                  errors |-> {}, completed |-> completed, total |-> total,
                  cbCalls |-> IF called THEN 1 ELSE 0, cbErrors |-> {}]
    /\ UNCHANGED <<routeVars, ret, errorListener, config, now, routed, sockets, pendingKeys,
                   rateLimitMap, ws, pc, req, outcome, closeListener, timers, timeoutTimer,
                   lastActivity, onceConnect, destroyOnClose, gs, hist>>

\* The callback of one socket.send of broadcast (lines 324-330), with or without an error
BroadcastSendDone(w, err) ==
    /\ w \in bc.outstanding
    /\ LET errors == IF err THEN bc.errors \cup {w} ELSE bc.errors
           completed == bc.completed + 1
           called == completed = bc.total
       IN  bc' = [bc EXCEPT !.outstanding = @ \ {w},
                            !.errors = errors,
                            !.completed = completed,
                            !.cbCalls = IF called THEN @ + 1 ELSE @,
                            !.cbErrors = IF called THEN errors ELSE @,
                            !.state = IF bc.outstanding = {w} THEN "done" ELSE @]
    /\ UNCHANGED <<routeVars, ret, errorListener, config, now, routed, sockets, pendingKeys,
                   rateLimitMap, ws, pc, req, outcome, closeListener, timers, timeoutTimer,
                   lastActivity, onceConnect, destroyOnClose, gs, hist>>

SendableIfRegistered(w) == w \in sockets

\* send(): the two guards of lines 347-358 both passed
Sendable(w) == w \in sockets /\ ws[w].readyState = "OPEN"

\* send(ref, data, options, cb) (lines 341-367).  ws's socket.send throws only
\* on a CONNECTING socket, which a registered server-side socket never is, so
\* for an OPEN socket the call is delegated and cb runs later (SendDone).
\* `emitted` are the events send() emits on the controller.
send(w) ==
    /\ ret' = IF Sendable(w)
              THEN [op |-> "send", ref |-> w, ok |-> TRUE, delegated |-> TRUE,
                    cb |-> "pending", emitted |-> {}]
              ELSE [op |-> "send", ref |-> w, ok |-> FALSE, delegated |-> FALSE,
                    cb |-> IF w \notin sockets THEN "Socket not found" ELSE "Socket not ready",
                    emitted |-> {}]
    /\ UNCHANGED <<routeVars, bc, errorListener, config, now, routed, sockets, pendingKeys,
                   rateLimitMap, ws, pc, req, outcome, closeListener, timers, timeoutTimer,
                   lastActivity, onceConnect, destroyOnClose, gs, hist>>

\* The callback of the delegated socket.send of send(), with or without an error
SendDone(err) ==
    /\ ret.op = "send"
    /\ ret.cb = "pending"
    /\ ret' = [ret EXCEPT !.cb = IF err THEN "send error" ELSE "sent"]
    /\ UNCHANGED <<routeVars, bc, errorListener, config, now, routed, sockets, pendingKeys,
                   rateLimitMap, ws, pc, req, outcome, closeListener, timers, timeoutTimer,
                   lastActivity, onceConnect, destroyOnClose, gs, hist>>

\* ------------------------------------------------------- route table
\* The process-wide Map allowed_routes and the controllers it has held.  A
\* controller is described by its kind, path, the config object it was built
\* from, the number of pending keys issued through its `new` getter, where it
\* stands: "live", "shutdown" (clear() awaits its gracefulShutdown()),
\* "destroyed", "failed" (destroy() threw), and its own instance fields: the
\* Maps `sockets`, `pendingKeys` and `rateLimitMap` (lines 105-107), whether
\* the once('connect') listener of use() is still registered, and the sockets
\* carrying use()'s once('close', () => controller.destroy()) listener.
\* Registrations spread the options of `config` into every controller;
\* "keyed" / "open" is the useConnectionKeys option and use() sets limit: 1.
MaxCtl == 2
MaxUrls == 1
Paths == {"/a", "/b"}
Ctl == 1..MaxCtl
RouteConfigs == {"keyed", "open"}
NoController ==
    [kind |-> "none", path |-> "", cfg |-> "", urls |-> 0, status |-> "none",
     sockets |-> {}, pendingKeys |-> {}, rateLimitMap |-> EmptyRateLimitMap,
     onceConnect |-> FALSE, destroyOnClose |-> {}]

FreshCtl == CHOOSE i \in Ctl : controllers[i].kind = "none" /\ \A j \in Ctl : j < i => controllers[j].kind # "none"
CanCreate == \E i \in Ctl : controllers[i].kind = "none"

OccupiedNever(p) == FALSE

\* allowed_routes.has(path)
Occupied(p) == allowed_routes[p] # 0

\* new WebSocketEndpointController(path, {...config, disposer}) / new WebSocketRawEndpointController
NewController(kind, p, cfg) ==
    [kind |-> kind, path |-> p, cfg |-> cfg, urls |-> 0, status |-> "live",
     sockets |-> {}, pendingKeys |-> {}, rateLimitMap |-> EmptyRateLimitMap,
     onceConnect |-> (kind = "use"), destroyOnClose |-> {}]

\* generateConnectionKey(): randomBytes(32) never repeats, in one controller or
\* across controllers: the n-th token of controller i
Token(i, n) == (i - 1) * MaxUrls + n
TokenOwner(k) == ((k - 1) \div MaxUrls) + 1

\* the `new` getter (lines 297-299) of the entry i: a URL of the path, with a
\* fresh pending key when the controller is key-gated; a raw controller has no
\* such getter and the property read yields undefined.  `listening` records
\* whether the call registered its connectionHandler (lines 573-576).
NewUrl(op, p, i, ctls, listening) ==
    IF ctls[i].kind = "raw"
    THEN [op |-> op, path |-> p, type |-> "undefined", ctl |-> 0, key |-> 0, listening |-> listening]
    ELSE [op |-> op, path |-> p, type |-> "url", ctl |-> i,
          key |-> IF ctls[i].cfg = "keyed" THEN Token(i, ctls[i].urls + 1) ELSE 0, listening |-> listening]

\* WebSockets.continuous(route, config) (lines 542-558)
continuous(p, cfg) ==
    /\ process = "running"
    /\ Occupied(p) \/ CanCreate
    /\ IF ~Occupied(p)
       THEN /\ controllers' = [controllers EXCEPT ![FreshCtl] = NewController("continuous", p, cfg)]
            /\ allowed_routes' = [allowed_routes EXCEPT ![p] = FreshCtl]
       ELSE UNCHANGED <<controllers, allowed_routes>>
    /\ ret' = [op |-> "continuous", path |-> p, type |-> "controller", ctl |-> allowed_routes'[p], key |-> 0]
    /\ UNCHANGED <<process, bc, errorListener, config, now, routed, sockets, pendingKeys,
                   rateLimitMap, ws, pc, req, outcome, closeListener, timers, timeoutTimer,
                   lastActivity, onceConnect, destroyOnClose, gs, hist>>

\* WebSockets.use(route, connectionHandler, config) (lines 560-579)
use(p, cfg) ==
    /\ process = "running"
    /\ Occupied(p) \/ CanCreate
    /\ LET ctls == IF ~Occupied(p)
                   THEN [controllers EXCEPT ![FreshCtl] = NewController("use", p, cfg)]
                   ELSE controllers
           i == IF ~Occupied(p) THEN FreshCtl ELSE allowed_routes[p]
           url == NewUrl("use", p, i, ctls, ~Occupied(p))
       IN  /\ ctls[i].urls < MaxUrls
           /\ allowed_routes' = [allowed_routes EXCEPT ![p] = i]
           /\ controllers' =
                 IF url.key # 0
                 THEN [ctls EXCEPT ![i].urls = @ + 1,
                                   ![i].pendingKeys = @ \cup {[key |-> url.key,
                                                               expiresAt |-> now + config.pendingKeyExpiration]}]
                 ELSE ctls
           /\ ret' = url
    /\ UNCHANGED <<process, bc, errorListener, config, now, routed, sockets, pendingKeys,
                   rateLimitMap, ws, pc, req, outcome, closeListener, timers, timeoutTimer,
                   lastActivity, onceConnect, destroyOnClose, gs, hist>>

\* WebSockets.raw(route, handle) (lines 581-590): returns nothing
raw(p) ==
    /\ process = "running"
    /\ Occupied(p) \/ CanCreate
    /\ IF ~Occupied(p)
       THEN /\ controllers' = [controllers EXCEPT ![FreshCtl] = NewController("raw", p, "")]
            /\ allowed_routes' = [allowed_routes EXCEPT ![p] = FreshCtl]
       ELSE UNCHANGED <<controllers, allowed_routes>>
    /\ ret' = [op |-> "raw", path |-> p, type |-> "undefined", ctl |-> 0, key |-> 0]
    /\ UNCHANGED <<process, bc, errorListener, config, now, routed, sockets, pendingKeys,
                   rateLimitMap, ws, pc, req, outcome, closeListener, timers, timeoutTimer,
                   lastActivity, onceConnect, destroyOnClose, gs, hist>>

\* the disposer of a gated controller: () => allowed_routes.delete(path)
disposer(routes, p) == [routes EXCEPT ![p] = 0]

\* What a call of controller.destroy() does: return, or throw out of
\* emit('destroy') because a 'destroy' listener throws (after the disposer ran)
DestroyResult == {"returns", "throws"}

\* destroy() (lines 465-482) on the controller record c: the three Maps are
\* cleared; removeAllListeners() is reached when emit('destroy') returns
ctlDestroyed(c, r) ==
    [c EXCEPT !.status = IF r = "returns" THEN "destroyed" ELSE "failed",
              !.sockets = {}, !.pendingKeys = {}, !.rateLimitMap = EmptyRateLimitMap,
              !.onceConnect = IF r = "returns" THEN FALSE ELSE @]

\* the loop of destroy() (lines 467-474) over the registry of c: OPEN sockets are terminated
wsAfterDestroy(c) ==
    [w \in WS |-> IF w \in c.sockets /\ ws[w].readyState = "OPEN" THEN wsTerminate(ws[w]) ELSE ws[w]]

\* controller.destroy() called by the application on a live gated controller
destroyController(i, r) ==
    /\ process = "running"
    /\ controllers[i].kind \in {"continuous", "use"}
    /\ controllers[i].status = "live"
    /\ controllers' = [controllers EXCEPT ![i] = ctlDestroyed(@, r)]
    /\ ws' = wsAfterDestroy(controllers[i])
    /\ allowed_routes' = disposer(allowed_routes, controllers[i].path)
    /\ UNCHANGED <<process, callVars, errorListener, config, now, routed, sockets, pendingKeys,
                   rateLimitMap, pc, req, outcome, closeListener, timers, timeoutTimer,
                   lastActivity, onceConnect, destroyOnClose, gs, hist>>

\* WebSockets.clear() (lines 592-602): snapshot, empty the table, start one
\* async task per controller.  A raw controller's task has no await: its
\* destroy() (line 529-531, no disposer configured) runs inside the call.  A
\* gated controller's task is suspended at `await controller.gracefulShutdown()`,
\* whose executor has sent the polite close to the sockets of its registry.
clear ==
    /\ process = "running"
    /\ \E p \in Paths : Occupied(p)
    /\ LET snapshot == {allowed_routes[p] : p \in {q \in Paths : Occupied(q)}}
           closing == UNION {controllers[i].sockets : i \in {j \in snapshot : controllers[j].kind # "raw"}}
       IN  /\ controllers' = [i \in Ctl |->
                             IF i \notin snapshot THEN controllers[i]
                             ELSE IF controllers[i].kind = "raw"
                                  THEN [controllers[i] EXCEPT !.status = "destroyed"]
                                  ELSE [controllers[i] EXCEPT !.status = "shutdown"]]
           /\ ws' = [w \in WS |-> IF w \in closing THEN wsClose(ws[w], "shutdown") ELSE ws[w]]
    /\ allowed_routes' = [p \in Paths |-> 0]
    /\ UNCHANGED <<process, callVars, errorListener, config, now, routed, sockets, pendingKeys,
                   rateLimitMap, pc, req, outcome, closeListener, timers, timeoutTimer,
                   lastActivity, onceConnect, destroyOnClose, gs, hist>>

\* How the runtime treats the rejected promise no handler was attached to
\* (Promise.all(...).finally(...) at lines 596-601): it reports it and goes on,
\* or it raises it as an uncaught exception and the process exits.
UnhandledRejection == {"running", "exited"}

\* The task of clear() for controller i resumes when gracefulShutdown() has
\* resolved (its sockets closed, or its force timer fired and terminated the
\* OPEN sockets of the registry) and calls controller.destroy() (line 600).  When destroy() throws,
\* the task's promise is rejected; the first rejection rejects Promise.all,
\* and the promise returned by finally() is rejected with no handler.
clearResume(i, r) ==
    /\ process = "running"
    /\ controllers[i].status = "shutdown"
    /\ controllers' = [controllers EXCEPT ![i] = ctlDestroyed(@, r)]
    /\ ws' = wsAfterDestroy(controllers[i])
    /\ allowed_routes' = disposer(allowed_routes, controllers[i].path)
    /\ IF r = "throws" /\ \A j \in Ctl : controllers[j].status # "failed"
       THEN process' \in UnhandledRejection
       ELSE process' = process
    /\ UNCHANGED <<callVars, errorListener, config, now, routed, sockets, pendingKeys,
                   rateLimitMap, pc, req, outcome, closeListener, timers, timeoutTimer,
                   lastActivity, onceConnect, destroyOnClose, gs, hist>>

\* ------------------------------------------------- dispatch to controllers
\* WebSockets.upgrade over the whole route table, with the admission run on the
\* controller the path resolves to.  The options spread into the controllers
\* have the default authHandler and no timeout, so add() runs to its end
\* inside the step, and the connect listeners return normally.
UnknownPath == "/x"
RequestPaths == Paths \cup {UnknownPath}

\* What the beforeUpgrade gate does with the request: call accept(), call
\* decline(reason), or throw
GateResult == {"accept", "decline", "throws"}

GateAcceptsAlways(g) == TRUE

\* the gate called accept (line 618): server.handleUpgrade runs controller.add
GateAccepts(g) == g = "accept"

KeyStoreShared(ctls, i) == UNION {ctls[j].pendingKeys : j \in Ctl}

\* this.pendingKeys of controller i: an instance field (line 106)
KeyStore(ctls, i) == ctls[i].pendingKeys

\* this.config.limit of a controller: use() sets limit: 1 (line 569)
LimitOf(c) == IF c.kind = "use" THEN 1 ELSE config.limit

\* add() (lines 197-269) on controller i for connection w presenting key k and
\* required parameters p from client cl: the controller record after the call,
\* and how the call ended
ctlAdd(ctls, i, w, k, p, cl) ==
    LET c == ctls[i]
        rl == checkRateLimit(c.rateLimitMap, cl)
        kv == validateConnectionKey(KeyStore(ctls, i), k)
        result == IF ~rl.ok THEN "rateLimited"
                  ELSE IF LimitOf(c) # 0 /\ Cardinality(c.sockets) >= LimitOf(c) THEN "tooMany"
                  ELSE IF c.cfg = "keyed" /\ ~kv.ok THEN "invalidKey"
                  ELSE IF config.requiredParams /\ ~p THEN "missingParam"
                  ELSE "admitted"
        c1 == [c EXCEPT !.rateLimitMap = rl.map]
        c2 == IF c.cfg = "keyed" /\ result \in {"missingParam", "admitted"}
              THEN [c1 EXCEPT !.pendingKeys = kv.keys] ELSE c1
        c3 == IF result = "admitted"
              THEN [c2 EXCEPT !.sockets = @ \cup {w},
                              !.onceConnect = FALSE,
                              !.destroyOnClose = IF c.onceConnect THEN @ \cup {w} ELSE @]
              ELSE c2
    IN  [ctl |-> c3, result |-> result, event |-> rl.event]

\* the tokens issued so far by the controllers
IssuedTokens == {Token(i, n) : i \in Ctl, n \in 1..MaxUrls} \cap
                UNION {{Token(i, n) : n \in 1..controllers[i].urls} : i \in Ctl}

\* WebSockets.upgrade(req, socket, head) (lines 604-630) for the request of
\* connection w: path p, key k, required parameters prm, client cl, and what
\* the controller's beforeUpgrade gate does with it
dispatch(w, p, k, prm, cl, g) ==
    /\ process = "running"
    /\ config.authHandler = "default"
    /\ config.timeout = 0
    /\ pc[w] = "new"
    /\ \A v \in WS : v < w => pc[v] # "new"
    /\ pc' = [pc EXCEPT ![w] = "done"]
    /\ LET i == IF p \in Paths THEN allowed_routes[p] ELSE 0
           open == [NewWs EXCEPT !.readyState = "OPEN", !.recv = TRUE]
           a == ctlAdd(controllers, i, w, k, prm, cl)
           admits == i # 0 /\ controllers[i].kind # "raw" /\ GateAccepts(g)
       IN  /\ outcome' = [outcome EXCEPT ![w] =
                            IF i = 0 THEN "noRoute"
                            ELSE IF controllers[i].kind = "raw" THEN "raw"
                            ELSE IF admits THEN a.result
                            ELSE IF g = "decline" THEN "declined" ELSE "gateThrew"]
           /\ controllers' = IF admits THEN [controllers EXCEPT ![i] = a.ctl] ELSE controllers
           /\ ws' = IF admits
                    THEN [ws EXCEPT ![w] = IF a.result = "admitted" THEN open ELSE wsClose(open, a.result)]
                    ELSE ws
    /\ UNCHANGED <<allowed_routes, process, callVars, errorListener, config, now, routed, sockets,
                   pendingKeys, rateLimitMap, req, closeListener, timers, timeoutTimer, lastActivity,
                   onceConnect, destroyOnClose, gs, hist>>

\* The socket of connection w reaches CLOSED and emits 'close': add()'s
\* listener (lines 248-255) deletes it from the registry of its controller,
\* then the listener of use() (line 574) calls controller.destroy(), also on a
\* controller that was destroyed before.
ctlEmitClose(w) ==
    /\ process = "running"
    /\ ws[w].readyState = "CLOSING"
    /\ LET closed == [ws EXCEPT ![w].readyState = "CLOSED", ![w].recv = FALSE]
           removed == [i \in Ctl |-> [controllers[i] EXCEPT !.sockets = @ \ {w}, !.destroyOnClose = @ \ {w}]]
           destroying == {i \in Ctl : w \in controllers[i].destroyOnClose}
       IN  /\ controllers' = [i \in Ctl |->
                                IF i \in destroying
                                THEN [ctlDestroyed(removed[i], "returns") EXCEPT
                                         !.status = IF controllers[i].status = "shutdown" THEN "shutdown" ELSE @]
                                ELSE removed[i]]
           /\ ws' = [v \in WS |->
                      IF \E i \in destroying : v \in removed[i].sockets /\ closed[v].readyState = "OPEN"
                      THEN wsTerminate(closed[v]) ELSE closed[v]]
           /\ allowed_routes' = [p \in Paths |->
                                   IF \E i \in destroying : controllers[i].path = p
                                   THEN 0 ELSE allowed_routes[p]]
    /\ UNCHANGED <<process, callVars, errorListener, config, now, routed, sockets, pendingKeys,
                   rateLimitMap, pc, req, outcome, closeListener, timers, timeoutTimer,
                   lastActivity, onceConnect, destroyOnClose, gs, hist>>

\* controller.terminate() (lines 444-454) called by the application on controller i
ctlTerminate(i) ==
    /\ process = "running"
    /\ controllers[i].kind \in {"continuous", "use"}
    /\ controllers[i].status = "live"
    /\ controllers[i].sockets # {} \/ controllers[i].pendingKeys # {}
    /\ ws' = [w \in WS |-> IF w \in controllers[i].sockets THEN wsTerminate(ws[w]) ELSE ws[w]]
    /\ controllers' = [controllers EXCEPT ![i].sockets = {}, ![i].pendingKeys = {},
                                          ![i].rateLimitMap = EmptyRateLimitMap]
    /\ UNCHANGED <<allowed_routes, process, callVars, errorListener, config, now, routed, sockets,
                   pendingKeys, rateLimitMap, pc, req, outcome, closeListener, timers, timeoutTimer,
                   lastActivity, onceConnect, destroyOnClose, gs, hist>>

\* ------------------------------------------------------- specifications
\* Everything but the route table and the last return value
InitController(cfgs, ls) ==
    /\ config \in cfgs
    /\ errorListener \in ls
    /\ bc = BcIdle
    /\ process = "running"
    /\ now = 0
    /\ routed = TRUE
    /\ sockets = {}
    /\ pendingKeys = {}
    /\ rateLimitMap = EmptyRateLimitMap
    /\ ws = [w \in WS |-> NewWs]
    /\ pc = [w \in WS |-> "new"]
    /\ req = [w \in WS |-> [key |-> NoKey, params |-> TRUE, full |-> FALSE, rateLimitEvent |-> FALSE, auth |-> "none"]]
    /\ outcome = [w \in WS |-> "none"]
    /\ closeListener = [w \in WS |-> FALSE]
    /\ timers = [w \in WS |-> <<>>]
    /\ timeoutTimer = [w \in WS |-> "undefined"]
    /\ lastActivity = [w \in WS |-> -1]
    /\ onceConnect = (config.kind = "use")
    /\ destroyOnClose = {}
    /\ gs = GsIdle
    /\ hist = [expiry |-> [k \in Keys |-> -1], validated |-> [k \in Keys |-> 0],
               consumer |-> [k \in Keys |-> 0], firstAdmitted |-> 0, handler |-> <<>>,
               connected |-> {}]

InitWith(cfgs, ls) ==
    /\ InitController(cfgs, ls)
    /\ ret = NoReturn
    /\ allowed_routes = [p \in Paths |-> 0]
    /\ controllers = [i \in Ctl |-> NoController]

Init == InitWith(Configs, {TRUE})

Admission ==
    \/ \E w \in WS, k \in KeyInputs, p \in ParamInputs, c \in Clients : upgrade(w, k, p, c)
    \/ \E w \in WS, r \in AuthResult : addResume(w, r)
    \/ \E k \in Keys : IssueKey(k)
    \/ Sweep
    \/ Tick
    \/ \E w \in WS : PeerClose(w)
    \/ \E w \in WS : emitClose(w)

Next == Admission

\* The controllers of Configs under admissions, key issue and sweep, peer closes
Spec == Init /\ [][Next]_vars

Failing ==
    \/ \E w \in WS, k \in KeyInputs, p \in ParamInputs, c \in Clients : upgrade(w, k, p, c)
    \/ \E w \in WS, r \in AuthResult : addResume(w, r)
    \/ \E w \in WS : PeerClose(w)
    \/ \E w \in WS : emitClose(w)

\* A controller with and without an 'error' listener under admissions whose
\* authHandler or connect listeners may throw
ErrorSpec == InitWith({CfgPlain}, BOOLEAN) /\ [][Failing]_vars

\* The one-shot controllers of use() under admissions and peer closes
UseSpec == InitWith({CfgUse, CfgUseOpen}, {TRUE}) /\ [][Next]_vars

Watchdog ==
    \/ \E w \in 1..MaxWatched, k \in KeyInputs, p \in ParamInputs, c \in Clients : upgrade(w, k, p, c)
    \/ \E w \in WS, r \in AuthResult : addResume(w, r)
    \/ Tick
    \/ \E w \in WS : PeerClose(w)
    \/ \E w \in WS : emitClose(w)
    \/ \E w \in WS : Activity(w)
    \/ \E w \in WS : resetTimeout(w)
    \/ \E w \in WS : TimerFire(w)
    \/ \E w \in WS : terminateRef(w)
    \/ terminateAll
    \/ Destroy

\* A controller with an idle timeout under admissions, activity signals,
\* resetTimeout(ref), terminate(ref), terminate() and destroy().  Time passes
\* and a due timer fires: the event loop runs every timer whose deadline has
\* passed.
WatchdogSpec ==
    /\ InitWith({CfgTimeout}, {TRUE})
    /\ [][Watchdog]_vars
    /\ WF_vars(Tick)
    /\ \A w \in WS : WF_vars(TimerFire(w))

Shutdown ==
    \/ \E w \in WS, k \in KeyInputs, p \in ParamInputs, c \in Clients : upgrade(w, k, p, c)
    \/ \E w \in WS, r \in AuthResult : addResume(w, r)
    \/ Tick
    \/ \E w \in WS : PeerClose(w)
    \/ \E w \in WS : emitClose(w)
    \/ \E T \in ShutdownTimeouts : gracefulShutdown(T)
    \/ forceTimeout

\* A controller under admissions, peer closes and one gracefulShutdown(T) call
ShutdownSpec ==
    /\ InitWith({CfgPlain}, {TRUE})
    /\ [][Shutdown]_vars
    /\ WF_vars(Tick)
    /\ WF_vars(forceTimeout)

\* server.handleUpgrade creates a ReferencedWebSocket per request (line 618):
\* the identity of a connection that is closed, out of the registry and has no
\* listener left stands for the next new connection.
NewConnection(w) ==
    /\ pc[w] = "done"
    /\ ws[w].readyState = "CLOSED"
    /\ w \notin sockets
    /\ ~closeListener[w]
    /\ ws' = [ws EXCEPT ![w] = NewWs]
    /\ pc' = [pc EXCEPT ![w] = "new"]
    /\ req' = [req EXCEPT ![w] = [key |-> NoKey, params |-> TRUE, full |-> FALSE, rateLimitEvent |-> FALSE, auth |-> "none"]]
    /\ outcome' = [outcome EXCEPT ![w] = "none"]
    /\ timers' = [timers EXCEPT ![w] = <<>>]
    /\ timeoutTimer' = [timeoutTimer EXCEPT ![w] = "undefined"]
    /\ lastActivity' = [lastActivity EXCEPT ![w] = -1]
    /\ hist' = [hist EXCEPT !.connected = @ \ {w}]
    /\ UNCHANGED <<routeVars, callVars, errorListener, config, now, routed, sockets, pendingKeys,
                   rateLimitMap, closeListener, onceConnect, destroyOnClose, gs>>

RateLimited ==
    \/ \E w \in WS, k \in KeyInputs, p \in ParamInputs, c \in Clients : upgrade(w, k, p, c)
    \/ Tick
    \/ \E w \in WS : PeerClose(w)
    \/ \E w \in WS : emitClose(w)
    \/ \E w \in WS : NewConnection(w)

\* A rate-limited controller under a stream of requests of one client identity
RateLimitSpec == InitWith({CfgRate}, {TRUE}) /\ [][RateLimited]_vars

Ordered ==
    \/ \E w \in WS, k \in KeyInputs, p \in ParamInputs, c \in Clients : upgrade(w, k, p, c)
    \/ \E w \in WS, r \in AuthResult : addResume(w, r)
    \/ \E k \in Keys : IssueKey(k)
    \/ Tick
    \/ \E w \in WS : PeerClose(w)
    \/ \E w \in WS : emitClose(w)

\* A controller with every admission check configured, under admissions and peer closes
OrderSpec == InitWith({CfgAll}, {TRUE}) /\ [][Ordered]_vars

Sweeping ==
    \/ \E w \in 1..MaxWatched, k \in KeyInputs, p \in ParamInputs, c \in Clients : upgrade(w, k, p, c)
    \/ \E w \in WS, r \in AuthResult : addResume(w, r)
    \/ \E k \in Keys : IssueKey(k) /\ now + config.pendingKeyExpiration < MaxTime
    \/ Sweep
    \/ Tick
    \/ \E w \in WS : PeerClose(w)
    \/ \E w \in WS : emitClose(w)

\* A key-gated controller under key issue, admissions and the periodic sweep.
\* Time passes and the setInterval callback keeps running.  Keys are issued
\* while their expiry lies inside the modelled time span.
SweepSpec ==
    /\ InitWith({CfgKeys}, {TRUE})
    /\ [][Sweeping]_vars
    /\ WF_vars(Tick)
    /\ WF_vars(Sweep)

\* The route table after the registrations of an application:
\* continuous('/a', config) followed by use('/b', handler, config), which has
\* returned the first URL of its controller, or by raw('/b', handle)
RegisteredTables ==
    LET a == NewController("continuous", "/a", "keyed")
        b == [NewController("use", "/b", "keyed") EXCEPT
                 !.urls = 1,
                 !.pendingKeys = {[key |-> Token(2, 1), expiresAt |-> config.pendingKeyExpiration]}]
        r == NewController("raw", "/b", "")
        table(c) == [i \in Ctl |-> IF i = 1 THEN a ELSE IF i = 2 THEN c ELSE NoController]
    IN  {[controllers |-> table(b),
          ret |-> NewUrl("use", "/b", 2, table(NewController("use", "/b", "keyed")), TRUE)],
         [controllers |-> table(r),
          ret |-> [op |-> "raw", path |-> "/b", type |-> "undefined", ctl |-> 0, key |-> 0]]}

DispatchInit ==
    /\ InitController({CfgRate}, {TRUE})
    /\ allowed_routes = [p \in Paths |-> IF p = "/a" THEN 1 ELSE 2]
    /\ \E t \in RegisteredTables : controllers = t.controllers /\ ret = t.ret

Dispatching ==
    \/ \E p \in Paths : use(p, "keyed")
    \/ \E w \in 1..MaxWatched, p \in RequestPaths, k \in IssuedTokens \cup {NoKey}, prm \in ParamInputs,
          cl \in Clients, g \in GateResult : dispatch(w, p, k, prm, cl, g)
    \/ \E w \in WS : PeerClose(w)
    \/ \E w \in WS : ctlEmitClose(w)
    \/ \E i \in Ctl : ctlTerminate(i)
    \/ \E i \in Ctl : destroyController(i, "returns")

\* A populated route table with its controllers under further use() calls,
\* upgrade requests for known and unknown paths, peer closes, terminate() and
\* destroy()
DispatchSpec == DispatchInit /\ [][Dispatching]_vars

Messaging ==
    \/ \E w \in WS, k \in KeyInputs, p \in ParamInputs, c \in Clients : upgrade(w, k, p, c)
    \/ \E w \in WS, r \in AuthResult : addResume(w, r)
    \/ \E w \in WS : PeerClose(w)
    \/ \E w \in WS : emitClose(w)
    \/ \E F \in Filters : broadcast(F)
    \/ \E w \in WS, err \in BOOLEAN : BroadcastSendDone(w, err)
    \/ \E w \in WS : send(w)
    \/ \E err \in BOOLEAN : SendDone(err)

\* A controller under admissions, peer closes, one broadcast() and send() calls
MessagingSpec == InitWith({CfgPlain}, {TRUE}) /\ [][Messaging]_vars

Routing ==
    \/ \E p \in Paths, cfg \in RouteConfigs : continuous(p, cfg)
    \/ \E p \in Paths, cfg \in RouteConfigs : use(p, cfg)
    \/ \E p \in Paths : raw(p)
    \/ \E i \in Ctl, r \in DestroyResult : destroyController(i, r)
    \/ clear
    \/ \E i \in Ctl, r \in DestroyResult : clearResume(i, r)

\* The route table under registrations, destroy() of single controllers and clear()
RouteSpec == InitWith({CfgPlain}, {TRUE}) /\ [][Routing]_vars

\* ---------------------------------------------------------------- claims
Ran(w) == pc[w] # "new"
Done(w) == pc[w] = "done"
\* attempts whose add() reached the key check (not stopped by routing, rate limit or capacity)
ReachedKeyCheck(w) ==
    /\ config.useConnectionKeys
    /\ Ran(w)
    /\ outcome[w] \notin {"noRoute", "rateLimited", "tooMany"}
    /\ req[w].key \in Keys

\* C1: with limit = N the registry never holds more than N connections, under
\* every interleaving of admissions, including admissions suspended at the
\* authHandler call while other admissions run their capacity check.
C1_LimitNeverExceeded ==
    config.limit # 0 => Cardinality(sockets) <= config.limit

\* C2: on a key-gated controller a token passes validateConnectionKey at most
\* once: the first successful validation removes it from the pending set and
\* every later validation of the same token fails.
C2_KeyValidatesAtMostOnce ==
    \A k \in Keys :
        /\ hist.validated[k] <= 1
        /\ hist.validated[k] = 1 => \A pk \in pendingKeys : pk.key # k
        /\ \A w \in WS : (ReachedKeyCheck(w) /\ req[w].key = k /\ hist.consumer[k] # w)
                            => outcome[w] = "invalidKey"

\* a second attempt presented a consumed token before its expiry and was refused
C2_Witness ==
    \E k \in Keys, w \in WS :
        /\ hist.validated[k] = 1
        /\ hist.consumer[k] # w
        /\ req[w].key = k
        /\ now <= hist.expiry[k]
        /\ outcome[w] = "invalidKey"

\* the step in which add() runs its checks for attempt w, presenting an issued token
KeyCheckStep(w) ==
    /\ config.useConnectionKeys
    /\ pc[w] = "new" /\ pc'[w] # "new"
    /\ outcome'[w] \notin {"noRoute", "rateLimited", "tooMany"}
    /\ req'[w].key \in Keys

\* C3 (as stated): an admission presenting a key at or after its expiry instant
\* (issue time + pendingKeyExpiration) is closed with the invalid-key code, is
\* not registered and leaves the pending-key set unchanged.
C3_RejectedAtOrAfterExpiry ==
    [][\A w \in WS :
        (KeyCheckStep(w) /\ now >= hist.expiry[req'[w].key])
            => /\ outcome'[w] = "invalidKey"
               /\ ws'[w].sent.code = INVALID_KEY
               /\ w \notin sockets'
               /\ pendingKeys' = pendingKeys]_vars

\* C3 (amended): a pending key is accepted only when validated at or before its
\* expiry instant; an admission whose key check runs strictly after that instant
\* is closed with the invalid-key code, is never registered, and leaves the
\* pending-key set unchanged, whether or not the sweep has run.
C3_RejectedAfterExpiry ==
    /\ [][\A w \in WS :
            /\ (KeyCheckStep(w) /\ now > hist.expiry[req'[w].key])
                  => /\ outcome'[w] = "invalidKey"
                     /\ pc'[w] = "done"
                     /\ ws'[w].sent.code = INVALID_KEY
                     /\ w \notin sockets'
                     /\ pendingKeys' = pendingKeys
            /\ (KeyCheckStep(w) /\ outcome'[w] # "invalidKey")
                  => now <= hist.expiry[req'[w].key]]_vars
    /\ [](\A w \in WS : outcome[w] = "invalidKey" => w \notin sockets)

\* an attempt was refused for a token that is still in the pending set: the
\* token was expired when presented and the sweep had not removed it
C3_Witness ==
    \E w \in WS :
        /\ ReachedKeyCheck(w)
        /\ outcome[w] = "invalidKey"
        /\ ws[w].sent.code = INVALID_KEY
        /\ now > hist.expiry[req[w].key]
        /\ \E pk \in pendingKeys : pk.key = req[w].key

\* Two attempts presented the same one-time URL of a use() route
SameUrl(v, w) ==
    /\ config.kind = "use"
    /\ v # w
    /\ Ran(v) /\ Ran(w)
    /\ req[v].key \in Keys
    /\ req[v].key = req[w].key

\* C4 (as stated): when two attempts present the same one-time URL of a use()
\* route (unexpired, neither failing requiredParams or authHandler), exactly one
\* is admitted and the other is closed with the too-many-connections code.
C4_OtherGetsTooMany ==
    \A v, w \in WS :
        (/\ SameUrl(v, w)
         /\ Done(v) /\ Done(w)
         /\ now <= hist.expiry[req[v].key]
         /\ {outcome[v], outcome[w]} \cap {"missingParam", "authFailed", "internalError", "addRejected"} = {}
         /\ outcome[w] # "admitted")
            => /\ outcome[v] = "admitted"
               /\ ws[w].sent.code = TOO_MANY_CONNECTIONS

\* C4 (amended): of two attempts presenting the same one-time URL at most one is
\* admitted, the one that consumed the key; the other is never registered and
\* is closed with the too-many-connections code when its checks run while the
\* registry is full, with the invalid-key code when they run while the registry
\* is not full (the first attempt still suspended at authHandler), and gets no
\* close code when the route is already gone.
C4_OtherRejected ==
    \A v, w \in WS :
        (SameUrl(v, w) /\ hist.consumer[req[v].key] = v /\ Done(w))
            => /\ w \notin sockets
               /\ outcome[w] \in {"tooMany", "invalidKey", "noRoute"}
               /\ outcome[w] = "tooMany" <=> (ws[w].readyState # "NONE" /\ req[w].full)
               /\ outcome[w] = "tooMany" => ws[w].sent.code = TOO_MANY_CONNECTIONS
               /\ outcome[w] = "invalidKey" => ws[w].sent.code = INVALID_KEY
               /\ outcome[w] = "noRoute" => ws[w].readyState = "NONE"

\* the second attempt ran while the first was suspended at authHandler and got the invalid-key code
C4_Witness ==
    \E v, w \in WS :
        /\ SameUrl(v, w)
        /\ hist.consumer[req[v].key] = v
        /\ outcome[v] = "admitted"
        /\ outcome[w] = "invalidKey"
        /\ now <= hist.expiry[req[w].key]
        /\ ~req[w].full

ClosedFor(w, c) == ws[w].cause = c /\ c \in Causes

OpenAdmitted == {v \in sockets : ws[v].readyState = "OPEN"}
LiveAdmitted == {v \in WS : outcome[v] = "admitted" /\ ws[v].readyState # "CLOSED"}

\* C8: with limit = N, while N admitted connections remain open any further
\* admission attempt is closed with the too-many-connections code and is not
\* registered; once fewer than N admitted connections are left unclosed, an
\* attempt that passes the other checks is not refused for capacity.
C8_LimitRejectsThenAdmits ==
    [][\A w \in WS :
        /\ (config.limit # 0 /\ Cardinality(OpenAdmitted) >= config.limit /\ w \notin sockets)
              => /\ w \notin sockets'
                 /\ (pc[w] = "new" /\ pc'[w] # "new" /\ routed)
                        => ws'[w].sent.code = TOO_MANY_CONNECTIONS
        /\ (config.limit # 0 /\ Cardinality(LiveAdmitted) < config.limit
                /\ pc[w] = "new" /\ pc'[w] # "new")
              => outcome'[w] # "tooMany"]_vars

\* C5: when gracefulShutdown(T) has resolved, every connection of its snapshot
\* that was sent the polite close is closed or has been force-terminated.
C5_ShutdownLeavesClosed ==
    gs.state = "resolved"
        => \A w \in gs.sockets :
              ws[w].cause = "shutdown" => (ws[w].readyState = "CLOSED" \/ ws[w].terminated)

\* C6: gracefulShutdown(T) resolves in every execution: at once when the
\* registry is empty, by the time every snapshotted connection has closed, and
\* otherwise when its force timer fires, which stays armed until then.
C6_ShutdownResolves ==
    /\ [](gs.state # "idle" =>
            /\ gs.sockets = {} => gs.state = "resolved"
            /\ (\A w \in gs.sockets : ws[w].readyState = "CLOSED") => gs.state = "resolved"
            /\ gs.state = "pending" => (gs.forceArmed /\ gs.forceAt <= MaxTime)
            /\ (~gs.forceArmed) => gs.state = "resolved")
    /\ (gs.state = "pending") ~> (gs.state = "resolved")

\* the force timer resolved the call although a connection never acknowledged the close
C6_Witness ==
    /\ gs.state = "resolved"
    /\ ~gs.forceArmed
    /\ now >= gs.forceAt
    /\ \E w \in gs.sockets : ws[w].cause = "shutdown" /\ ws[w].readyState = "CLOSING"

\* an open registered connection whose deadline (last activity + timeout) has passed
Overdue(w) ==
    /\ w \in sockets
    /\ ws[w].readyState = "OPEN"
    /\ lastActivity[w] + config.timeout <= now

\* C9: on a controller with timeout > 0 an admitted open connection always has
\* its watchdog armed for last activity + timeout, so that without a further
\* activity signal it is closed once that deadline has passed, with the timeout
\* code and never before the deadline; an activity signal moves the deadline to
\* the signal's time + timeout.
C9_IdleTimeout ==
    /\ [](\A w \in sockets :
            ws[w].readyState = "OPEN" => timers[w] = <<lastActivity[w] + config.timeout>>)
    /\ [][\A w \in WS :
            /\ (ws[w].cause # "timeout" /\ ws'[w].cause = "timeout")
                  => /\ now >= lastActivity[w] + config.timeout
                     /\ ws'[w].sent.code = TIMEOUT
            /\ (w \in sockets /\ lastActivity'[w] # lastActivity[w])
                  => /\ lastActivity'[w] = now
                     /\ timers'[w] = <<now + config.timeout>>]_vars
    /\ \A w \in WS : []<>~Overdue(w)

\* a connection whose deadline was moved by an activity signal was closed by the watchdog
C9_Witness ==
    \E w \in sockets :
        /\ ws[w].cause = "timeout"
        /\ ws[w].sent.code = TIMEOUT
        /\ lastActivity[w] > 0
        /\ now >= lastActivity[w] + config.timeout

AddStep(w) == pc[w] = "new" /\ pc'[w] # "new" /\ routed
\* the client's window is running: it has an entry whose reset time has not passed
WindowOpen(c) == rateLimitMap[c].count > 0 /\ now <= rateLimitMap[c].resetTime

\* C11: with rateLimit = {max, window}, for one client identity the first max
\* requests inside a window are allowed, every further request inside the same
\* window is denied (rate-limited close code, rateLimit event emitted, nothing
\* counted), and the first request after the window has elapsed is allowed and
\* starts a new window whose count is 1.
C11_RateLimitWindow ==
    /\ [](\A c \in Clients : rateLimitMap[c].count <= config.rateLimit.max)
    /\ [][\A w \in WS, c \in Clients :
            AddStep(w) =>
               /\ (WindowOpen(c) /\ rateLimitMap[c].count < config.rateLimit.max)
                     => /\ outcome'[w] # "rateLimited"
                        /\ ~req'[w].rateLimitEvent
                        /\ rateLimitMap'[c] = [rateLimitMap[c] EXCEPT !.count = @ + 1]
               /\ (WindowOpen(c) /\ rateLimitMap[c].count >= config.rateLimit.max)
                     => /\ outcome'[w] = "rateLimited"
                        /\ ws'[w].sent.code = RATE_LIMITED
                        /\ req'[w].rateLimitEvent
                        /\ w \notin sockets'
                        /\ rateLimitMap' = rateLimitMap
               /\ ~WindowOpen(c)
                     => /\ outcome'[w] # "rateLimited"
                        /\ ~req'[w].rateLimitEvent
                        /\ rateLimitMap'[c] = [count |-> 1, resetTime |-> now + config.rateLimit.window]]_vars

\* a request was denied, and a later request after the window elapsed started a new window
C11_Witness ==
    \E v \in WS, c \in Clients :
        /\ outcome[v] = "rateLimited"
        /\ ws[v].sent.code = RATE_LIMITED
        /\ req[v].rateLimitEvent
        /\ rateLimitMap[c].count = 1
        /\ rateLimitMap[c].resetTime > config.rateLimit.window

\* C12: broadcast over M selected connections of which K are not open attempts a
\* send on exactly the M-K open ones and invokes its callback exactly once,
\* only after every send attempt has resolved, with a failure list holding only
\* errors of sends to open connections; with nothing selected the callback is
\* invoked once with an empty list.
C12_BroadcastCompletes ==
    /\ [][(bc.state = "idle" /\ bc'.state # "idle")
            => /\ bc'.attempted = {w \in bc'.selected : ws[w].readyState = "OPEN"}
               /\ Cardinality(bc'.attempted)
                     = Cardinality(bc'.selected)
                         - Cardinality({w \in bc'.selected : ws[w].readyState # "OPEN"})]_vars
    /\ [](bc.state # "idle" =>
            /\ bc.cbCalls <= 1
            /\ bc.cbCalls = 1 <=> bc.outstanding = {}
            /\ bc.cbCalls = 1 => (bc.cbErrors = bc.errors /\ bc.cbErrors \subseteq bc.attempted)
            /\ bc.selected = {} => (bc.cbCalls = 1 /\ bc.cbErrors = {}))

\* a broadcast over open and non-open connections completed with one failed send
C12_Witness ==
    /\ bc.state = "done"
    /\ bc.cbCalls = 1
    /\ bc.attempted # {}
    /\ bc.selected \ bc.attempted # {}
    /\ bc.cbErrors # {}

\* C18: send(ref, data) returns failure and performs no transport send exactly
\* when ref is not in the registry or the connection is not open; then the
\* callback gets an error, no event is emitted on the controller and the
\* registry is unchanged; otherwise the send is delegated and success returned.
C18_SendFailsExactlyWhenNotOpen ==
    [][\A w \in WS :
        (ret' # ret /\ ret'.op = "send" /\ ret'.ref = w /\ ret'.cb \notin {"sent", "send error"})
           => LET unusable == w \notin sockets \/ ws[w].readyState # "OPEN"
              IN  /\ ret'.ok <=> ~unusable
                  /\ ret'.delegated <=> ~unusable
                  /\ unusable => /\ ret'.cb \in {"Socket not found", "Socket not ready"}
                                  /\ ret'.emitted = {}
                                  /\ sockets' = sockets
                                  /\ ws' = ws]_vars

\* send() to a registered connection that is closing failed with an error for the callback
C18_Witness ==
    /\ ret.op = "send"
    /\ ret.ref \in sockets
    /\ ws[ret.ref].readyState = "CLOSING"
    /\ ~ret.ok
    /\ ret.cb = "Socket not ready"

\* path p resolves to a controller
Resolves(p) == allowed_routes[p] # 0
\* a registration call (continuous, use or raw) for path p
RegistrationStep(p) ==
    \/ \E cfg \in RouteConfigs : continuous(p, cfg)
    \/ \E cfg \in RouteConfigs : use(p, cfg)
    \/ raw(p)
\* controller i is the same object with the same kind, configuration and standing
SameController(i) ==
    /\ controllers'[i].kind = controllers[i].kind
    /\ controllers'[i].cfg = controllers[i].cfg
    /\ controllers'[i].path = controllers[i].path
    /\ controllers'[i].status = controllers[i].status
\* the table maps each path to at most one controller, which was built for that path
RoutesWellFormed ==
    /\ \A p \in Paths : Resolves(p) =>
            (controllers[allowed_routes[p]].kind # "none" /\ controllers[allowed_routes[p]].path = p)
    /\ \A p, q \in Paths : (Resolves(p) /\ allowed_routes[p] = allowed_routes[q]) => p = q

\* C13 (as stated): each path resolves to at most one controller, and
\* registering on an occupied path leaves the existing entry (same controller,
\* configuration and kind) in place and returns it.
C13_OccupiedReturnsExisting ==
    /\ []RoutesWellFormed
    /\ [][\A p \in Paths :
            (Resolves(p) /\ RegistrationStep(p))
               => /\ allowed_routes' = allowed_routes
                  /\ \A i \in Ctl : SameController(i)
                  /\ ret'.type = "controller"
                  /\ ret'.ctl = allowed_routes[p]]_vars

\* C13 (amended): each path resolves to at most one controller, and
\* registering on an occupied path creates and overwrites nothing: the entry
\* keeps its controller, configuration and kind.  Only continuous returns the
\* existing controller; use returns a connection URL of the existing entry
\* (issuing one more pending key when it is key-gated, undefined for a raw
\* entry) and raw returns nothing.
C13_OccupiedEntryKept ==
    /\ []RoutesWellFormed
    /\ [][\A p \in Paths :
            (Resolves(p) /\ RegistrationStep(p))
               => LET i == allowed_routes[p]
                  IN  /\ allowed_routes' = allowed_routes
                      /\ \A j \in Ctl : SameController(j)
                      /\ \A j \in Ctl : j # i => controllers'[j] = controllers[j]
                      /\ ret'.op = "continuous" => (ret'.type = "controller" /\ ret'.ctl = i)
                      /\ ret'.op = "use" =>
                            IF controllers[i].kind = "raw" THEN ret'.type = "undefined"
                            ELSE /\ ret'.type = "url" /\ ret'.ctl = i
                                 /\ controllers'[i].urls
                                       = controllers[i].urls + (IF controllers[i].cfg = "keyed" THEN 1 ELSE 0)
                      /\ ret'.op = "raw" => ret'.type = "undefined"]_vars

\* use() on a path held by a continuous controller returned a URL with a new key of that controller
C13_Witness ==
    /\ ret.op = "use"
    /\ ret.type = "url"
    /\ ret.key # 0
    /\ controllers[ret.ctl].kind = "continuous"
    /\ allowed_routes[ret.path] = ret.ctl

\* C17: clear() empties the route table at once and every controller of its
\* snapshot is then shut down and destroyed: as long as the shutdown of one is
\* still awaited its task is still going to run, whatever failed in the task
\* of another controller.
C17_ClearDestroysEach ==
    \A i \in Ctl : controllers[i].status = "shutdown" => process = "running"

\* C14: for a route created by use(), once the first admitted connection has
\* closed the controller is destroyed and its path is gone from the route
\* table, and a later upgrade request for the path is treated as an unknown
\* path.
C14_DestroyedAfterFirstClose ==
    /\ [](\A w \in WS :
            (config.kind = "use" /\ hist.firstAdmitted = w /\ ws[w].readyState = "CLOSED")
               => ~routed)
    /\ [][\A w \in WS :
            (~routed /\ pc[w] = "new" /\ pc'[w] # "new")
               => /\ outcome'[w] = "noRoute"
                  /\ ws'[w] = ws[w]
                  /\ sockets' = sockets]_vars

\* C15: for a controller created by use(), the connection handler runs at most
\* once, and exactly once as soon as a connection has been admitted: for the
\* first admitted connection and at its admission; no later admission runs it
\* again.
C15_HandlerRunsOnceForFirst ==
    /\ Len(hist.handler) <= 1
    /\ (hist.firstAdmitted # 0) <=> (Len(hist.handler) = 1)
    /\ Len(hist.handler) = 1 => hist.handler[1] = hist.firstAdmitted

\* two connections were admitted to a use() controller and the handler ran for the first only
C15_Witness ==
    \E v, w \in WS :
        /\ v # w
        /\ outcome[v] = "admitted" /\ outcome[w] = "admitted"
        /\ hist.firstAdmitted = v
        /\ hist.handler = <<v>>

\* C16: when destroy() returns, every connection that was in the registry at
\* the call has been force-closed whatever its ready state, the connection,
\* pending-key and rate-limit maps are empty, the path no longer resolves and
\* the controller's listeners are detached.
C16_DestroyForceClosesAll ==
    [][(routed /\ ~routed')
          => /\ \A w \in sockets : ws'[w].readyState = "CLOSED" \/ ws'[w].terminated
             /\ sockets' = {}
             /\ pendingKeys' = {}
             /\ rateLimitMap' = EmptyRateLimitMap
             /\ ~errorListener']_vars

\* the step in which an exception raised inside add() for attempt w reaches its catch block
AddThrewStep(w) ==
    /\ outcome'[w] # outcome[w]
    /\ outcome'[w] \in {"internalError", "addRejected"}

\* C19: whenever an exception is raised inside add (a throwing authHandler, a
\* throwing connect listener, with or without an error listener on the
\* controller), the connection is closed with the internal-error code, add
\* does not reject, and the connection is not left in the registry open.
C19_ExceptionClosesInternal ==
    [][\A w \in WS :
        AddThrewStep(w)
           => /\ ws[w].readyState = "OPEN" => ws'[w].sent = CloseInternal
              /\ outcome'[w] # "addRejected"
              /\ ~(w \in sockets' /\ ws'[w].readyState = "OPEN")]_vars

\* the step in which authHandler answers for attempt w with false or a rejection
AuthRefusedStep(w) == req[w].auth = "none" /\ req'[w].auth \in {"false", "throw"}

\* C20 (as stated): when authHandler returns false or its promise is rejected,
\* the connection is closed with the auth-failed code and is never registered.
C20_AuthFailedCode ==
    /\ [][\A w \in WS :
            AuthRefusedStep(w)
               => /\ ws[w].readyState = "OPEN" => ws'[w].sent = CloseAuthFailed
                  /\ w \notin sockets']_vars
    /\ [](\A w \in WS : req[w].auth \in {"false", "throw"} => w \notin sockets)

\* C20 (amended): when authHandler returns false the connection is closed with
\* the auth-failed code; when its promise is rejected the connection is not
\* closed with the auth-failed code: the catch block of add closes it with the
\* internal-error code, and leaves it unclosed when emit('error') throws for
\* want of an error listener.  In both cases it is never registered.
C20_FalseAuthFailedRejectionInternal ==
    /\ [][\A w \in WS :
            AuthRefusedStep(w)
               => /\ w \notin sockets'
                  /\ (req'[w].auth = "false" /\ ws[w].readyState = "OPEN")
                        => ws'[w].sent = CloseAuthFailed
                  /\ req'[w].auth = "throw"
                        => /\ ws'[w].sent # CloseAuthFailed
                           /\ ws'[w].sent.code # AUTH_FAILED
                           /\ (errorListener /\ ws[w].readyState = "OPEN")
                                 => (ws'[w].sent.code = INTERNAL_ERROR /\ ws'[w].cause = "internalError")
                           /\ ~errorListener => ws'[w] = ws[w]]_vars
    /\ [](\A w \in WS : req[w].auth \in {"false", "throw"} => w \notin sockets)

\* an attempt whose authHandler promise was rejected was closed with the internal-error code
C20_Witness ==
    \E w \in WS :
        /\ req[w].auth = "throw"
        /\ ws[w].sent.code = INTERNAL_ERROR
        /\ ws[w].sent.code # AUTH_FAILED
        /\ w \notin sockets

Rejections == {"rateLimited", "tooMany", "invalidKey", "missingParam", "authFailed"}

\* C21: an admission that ends in rejection (rate limit, capacity, invalid key,
\* missing parameter, failed auth) leaves the registry and the other
\* connections as they were, and a valid key presented by an attempt that is
\* then rejected for a missing parameter or failed auth is still in the
\* pending set, usable until its expiry.
C21_RejectionLeavesState ==
    /\ [][\A w \in WS :
            (outcome[w] = "none" /\ outcome'[w] \in Rejections)
               => /\ sockets' = sockets
                  /\ \A v \in WS : v # w => ws'[v] = ws[v]]_vars
    /\ [](\A w \in WS :
            (/\ outcome[w] \in {"missingParam", "authFailed"}
             /\ req[w].key \in Keys
             /\ hist.consumer[req[w].key] = w
             /\ now <= hist.expiry[req[w].key])
               => \E pk \in pendingKeys : pk.key = req[w].key)

\* the checks of add() that fail for a request with key k and parameters p, in the state before it runs
RateCheckFails(c) ==
    config.rateLimit.max # 0 /\ WindowOpen(c) /\ rateLimitMap[c].count >= config.rateLimit.max
CapacityCheckFails == config.limit # 0 /\ Cardinality(sockets) >= config.limit
KeyCheckFails(k) ==
    config.useConnectionKeys /\ ~(\E pk \in pendingKeys : pk.key = k /\ now <= pk.expiresAt)
ParamCheckFails(p) == config.requiredParams /\ ~p
\* the first check that fails, in the order rate limit, capacity, key, parameters
FirstFailure(k, p, c) ==
    IF RateCheckFails(c) THEN "rateLimited"
    ELSE IF CapacityCheckFails THEN "tooMany"
    ELSE IF KeyCheckFails(k) THEN "invalidKey"
    ELSE IF ParamCheckFails(p) THEN "missingParam"
    ELSE "pass"

C23_RegistryHoldsNoClosed ==
    \A w \in sockets : ws[w].readyState # "CLOSED"

\* C25: closing a connection by timeout, shutdown, terminate, destroy or the
\* peer cancels its watchdog at that moment: in every reachable state no
\* watchdog timer is armed for a connection that is closing, closed or out of
\* the registry.
C25_NoTimerUnlessOpenRegistered ==
    \A w \in WS : timers[w] # <<>> => (w \in sockets /\ ws[w].readyState = "OPEN")

Pending(k) == \E pk \in pendingKeys : pk.key = k

\* C26: the periodic key sweep removes only keys whose expiry has passed and
\* never a key that is still valid, and every issued key is eventually absent
\* from the pending set (consumed by a validation or purged by a sweep after
\* its expiry) in every execution where the sweep keeps running.
C26_SweepPurgesExpired ==
    /\ [][Sweep => /\ pendingKeys' \subseteq pendingKeys
                   /\ \A pk \in pendingKeys :
                         /\ pk \notin pendingKeys' => now > pk.expiresAt
                         /\ now <= pk.expiresAt => pk \in pendingKeys']_vars
    /\ [](\A k \in Keys :
            (hist.expiry[k] # -1 /\ ~Pending(k)) => (hist.validated[k] = 1 \/ now > hist.expiry[k]))
    /\ \A k \in Keys : []<>~Pending(k)

\* a key that nobody presented was purged by the sweep after its expiry
C26_Witness ==
    \E k \in Keys :
        /\ hist.expiry[k] # -1
        /\ hist.validated[k] = 0
        /\ ~Pending(k)
        /\ now > hist.expiry[k]

\* C30: once a gracefulShutdown(T) call has resolved it takes no further
\* action: a connection admitted after the promise resolved (every snapshotted
\* connection having closed before T) is never terminated by that call's force
\* timer.
C30_ResolvedShutdownIsInert ==
    \A w \in WS :
        []((gs.state = "resolved" /\ pc[w] # "done") => [](~ws[w].terminated))

\* the step in which destroy() of controller i runs
DestroyStep(i) ==
    /\ controllers[i].status \in {"live", "shutdown"}
    /\ controllers'[i].status \in {"destroyed", "failed"}
    /\ controllers[i].kind \in {"continuous", "use"}

\* C29: destroying a controller removes only that controller's own entry from
\* the route table: when the path was registered again with a new controller
\* after the old one was detached (by clear()), the destroy() of the old
\* controller leaves the new controller's entry in place.
C29_DestroyKeepsOtherEntries ==
    [][\A i \in Ctl :
        DestroyStep(i)
           => \A p \in Paths :
                 (Resolves(p) /\ allowed_routes[p] # i) => allowed_routes'[p] = allowed_routes[p]]_vars

\* C28: every call use(path, handler) yields a URL whose holder can open the
\* connection and have that call's handler invoked for it, also when the path
\* already has a controller from an earlier call: no handler passed to use()
\* is dropped, every call registers its handler for the URL it returns.
C28_EveryUseHandlerRegistered ==
    ret.op = "use" => (ret.type = "url" /\ ret.listening)

\* the controller a request path resolves to (0 = none), and whether it is gated
Resolved(p) == IF p \in Paths THEN allowed_routes[p] ELSE 0
Gated(i) == i # 0 /\ controllers[i].kind \in {"continuous", "use"}
\* add() ran for the connection: it ended in one of its rejections or in the registration
AdmissionOutcomes == Rejections \cup {"admitted"}
\* the registry, pending keys and rate-limit entries of a controller
Maps(c) == <<c.sockets, c.pendingKeys, c.rateLimitMap>>

\* C24: upgrade runs a controller's admission for a request only if the path
\* resolves to a gated controller at dispatch time and that controller's gate
\* called accept; for an unknown path, or when the gate calls decline, the
\* transport is closed and no controller's registry, pending keys or
\* rate-limit entries change; for a raw route the request is handed to the raw
\* handler and no admission check runs.
C24_DispatchGatesAdmission ==
    [][\A w \in WS : (pc[w] = "new" /\ pc'[w] = "done") =>
       \A p \in RequestPaths, k \in IssuedTokens \cup {NoKey}, prm \in ParamInputs,
          cl \in Clients, g \in GateResult :
        dispatch(w, p, k, prm, cl, g)
           => LET i == Resolved(p)
              IN  /\ outcome'[w] \in AdmissionOutcomes <=> (Gated(i) /\ g = "accept")
                  /\ outcome'[w] \in AdmissionOutcomes
                        => \A j \in Ctl : j # i => controllers'[j] = controllers[j]
                  /\ (i = 0 \/ (Gated(i) /\ g = "decline"))
                        => /\ outcome'[w] = (IF i = 0 THEN "noRoute" ELSE "declined")
                           /\ ws'[w].readyState = "NONE"
                           /\ \A j \in Ctl : Maps(controllers'[j]) = Maps(controllers[j])
                  /\ (i # 0 /\ controllers[i].kind = "raw")
                        => /\ outcome'[w] = "raw"
                           /\ ws'[w].readyState = "NONE"
                           /\ controllers' = controllers]_vars

\* the gate of a key-gated controller declined a request that presented a
\* pending key of that controller, and the key is still pending
C24_Witness ==
    \E w \in WS, i \in Ctl :
        /\ outcome[w] = "declined"
        /\ ws[w].readyState = "NONE"
        /\ controllers[i].sockets = {}
        /\ controllers[i].pendingKeys # {}
        /\ controllers[i].rateLimitMap = EmptyRateLimitMap

\* C27: controllers share no state: an operation on one controller (issue key,
\* admission with its rate-limit check, close of one of its connections,
\* terminate, destroy) never changes the registry, pending keys or rate-limit
\* entries of a controller on another path, and a key issued by one controller
\* is never accepted by another.
C27_ControllersShareNoState ==
    /\ [][/\ \A w \in WS : (pc[w] = "new" /\ pc'[w] = "done") =>
             \A p \in RequestPaths, k \in IssuedTokens \cup {NoKey}, prm \in ParamInputs,
                cl \in Clients, g \in GateResult :
              dispatch(w, p, k, prm, cl, g)
                 => /\ \A j \in Ctl : j # Resolved(p) => Maps(controllers'[j]) = Maps(controllers[j])
                    /\ (outcome'[w] = "admitted" /\ controllers[Resolved(p)].cfg = "keyed")
                          => (k # NoKey /\ TokenOwner(k) = Resolved(p))
          /\ \A p \in Paths :
                use(p, "keyed")
                   => \A j \in Ctl : j # allowed_routes'[p] => Maps(controllers'[j]) = Maps(controllers[j])
          /\ \A i \in Ctl :
                (ctlTerminate(i) \/ destroyController(i, "returns"))
                   => \A j \in Ctl : j # i => Maps(controllers'[j]) = Maps(controllers[j])
          /\ \A w \in WS :
                ctlEmitClose(w)
                   => \A j \in Ctl :
                         w \notin (controllers[j].sockets \cup controllers[j].destroyOnClose)
                            => Maps(controllers'[j]) = Maps(controllers[j])]_vars
    /\ [](\A i \in Ctl :
            /\ \A pk \in controllers[i].pendingKeys : TokenOwner(pk.key) = i
            /\ \A j \in Ctl : j # i => controllers[i].sockets \cap controllers[j].sockets = {})

\* a request presented at one controller a key that is pending at another
\* controller: it was refused as invalid and the key is still pending there
C27_Witness ==
    \E w \in WS, i, j \in Ctl :
        /\ i # j
        /\ outcome[w] = "invalidKey"
        /\ ws[w].sent = CloseInvalidKey
        /\ controllers[i].rateLimitMap # EmptyRateLimitMap
        /\ controllers[j].rateLimitMap = EmptyRateLimitMap
        /\ controllers[j].pendingKeys # {}
        /\ controllers[i].pendingKeys = {}

\* C31: once destroy() has returned (the controller's disposer has removed its
\* route entry), the registry is empty and stays empty: an admission that was
\* suspended at `await this.authHandler(req)` when destroy() ran does not
\* register its connection when it resumes.
C31_DestroyedRegistryStaysEmpty == ~routed => sockets = {}

====
